---- MODULE Spec2Model ----
(***************************************************************************)
(* Model of src/src/lib.rs: the quadrature decoder RotaryEncoder and the   *)
(* velocity tracker RotaryEncoderWithVelocity that wraps it.               *)
(*                                                                         *)
(* Numbers.  pos_calc is an i8, transition a u8, the timestamps u64.  The  *)
(* f32 velocity and its two factors are held as integers counting          *)
(* hundredths (1.0 is VelOne = 100, the default factors 0.2 and 0.01 are   *)
(* 20 and 1); only finite values are modelled, and every value the model   *)
(* uses is a whole number of hundredths, so sums, differences and          *)
(* comparisons are those of the program up to f32 rounding.                *)
(***************************************************************************)
EXTENDS Integers, Sequences, FiniteSets, TLC

VARIABLES
    pos_calc,             \* RotaryEncoder.pos_calc : i8
    sensitivity,          \* RotaryEncoder.sensitivity
    transition,           \* RotaryEncoder.transition : u8
    direction,            \* RotaryEncoder.direction
    velocity,             \* RotaryEncoderWithVelocity.velocity (hundredths)
    velocity_inc_factor,  \* hundredths
    velocity_dec_factor,  \* hundredths
    velocity_action_ms,   \* u64
    previous_time,        \* u64
    panicked,             \* an arithmetic overflow check aborted the program
    net_sum,              \* observer: table contributions summed since the last event
    log,                  \* observer: the calls made since construction (capped)
    quiet_time,           \* observer: timestamp of the latest update that reported None, 0 if none
    event_time,           \* observer: timestamp of the latest direction event, -1 if none
    twin,                 \* observer: a second RotaryEncoder, stepped beside the first
    last_read             \* observer: the pin reads <<dt, clk>> of the latest update

vars == <<pos_calc, sensitivity, transition, direction, velocity,
          velocity_inc_factor, velocity_dec_factor, velocity_action_ms,
          previous_time, panicked, net_sum, log, quiet_time, event_time,
          twin, last_read>>

encVars == <<pos_calc, sensitivity, transition, direction>>
velVars == <<velocity, velocity_inc_factor, velocity_dec_factor,
             velocity_action_ms, previous_time>>

----------------------------------------------------------------------------
(* Bounds of the model. *)

\* calls recorded in log before it is closed
MaxLog == 6
\* timestamps passed to update range over 0..MaxTime
MaxTime == 2
\* the tracker's velocity is explored within [-VelCap, VelOne + VelCap]
VelCap == 20

----------------------------------------------------------------------------
(* Types and constants of the program. *)

\* f32 1.0, in hundredths
VelOne == 100
\* const DEFAULT_VELOCITY_INC_FACTOR: f32 = 0.2
DEFAULT_VELOCITY_INC_FACTOR == 20
\* const DEFAULT_VELOCITY_DEC_FACTOR: f32 = 0.01
DEFAULT_VELOCITY_DEC_FACTOR == 1
\* const DEFAULT_VELOCITY_ACTION_MS: u64 = 25
DEFAULT_VELOCITY_ACTION_MS == 25

Directions == {"None", "Clockwise", "Anticlockwise"}
Sensitivities == {"Default", "Low"}

\* Sensitivity::Default = 2, Sensitivity::Low = 4, read by `as i8`
SensValue(s) == IF s = "Default" THEN 2 ELSE 4

\* the table with the sign of one entry (01 -> 11) mistyped
STATES_Typo == <<0, -1, 1, 0, 1, 0, 0, 1, -1, 0, 0, 1, 0, 1, -1, 0>>

\* the table with every sign flipped
STATES_Negated == <<0, 1, -1, 0, -1, 0, 0, 1, 1, 0, 0, -1, 0, -1, 1, 0>>

\* const STATES: [i8; 16], indexed from 0 in the source
STATES == <<0, -1, 1, 0, 1, 0, 0, -1, -1, 0, 0, 1, 0, 1, -1, 0>>

\* InputPin::is_high() returns Ok(true), Ok(false) or Err(_)
Reads == {"high", "low", "err"}

\* a failed read taken as high
Level_ErrHigh(r) == IF r = "low" THEN 0 ELSE 1

\* is_high().unwrap_or_default() as u8
Level(r) == IF r = "high" THEN 1 ELSE 0

\* (dt_state << 1) | clk_state
Current(dt, clk) == Level(dt) * 2 + Level(clk)

\* the history shifted by three bits instead of two
ShiftIn_ByThree(tr, cur) == ((tr * 8) % 256) + cur

\* (self.transition << 2) | current, in u8
ShiftIn(tr, cur) == ((tr * 4) % 256) + cur

\* (self.transition & 0x0F) as usize
Index(tr) == tr % 16

\* the table value the update adds for history tr (already shifted)
Contribution(tr) == STATES[Index(tr) + 1]

\* two's complement wrap of an i8 result
WrapI8(x) == ((x + 128) % 256) - 128

\* the i8 addition leaves [-128, 127]
OverflowsI8(x) == x < -128 \/ x > 127

\* the threshold test without its second disjunct
Fires_PositiveOnly(pos, s) == pos = SensValue(s)

\* self.pos_calc == sensitivity || self.pos_calc == -sensitivity
Fires(pos, s) == pos = SensValue(s) \/ pos = -SensValue(s)

\* if self.pos_calc == sensitivity { Clockwise } else { Anticlockwise }
EventDirection(pos, s) == IF pos = SensValue(s) THEN "Clockwise" ELSE "Anticlockwise"

----------------------------------------------------------------------------
(* RotaryEncoder::update as a function of the decoder's fields and the two *)
(* pin reads.  `sum` is the accumulator right after the table addition     *)
(* (wrapped as a release build wraps it), `overflow` tells that the        *)
(* addition left the i8 range (a build with overflow checks panics).       *)

EncState(p, s, t, d) == [pos_calc |-> p, sensitivity |-> s, transition |-> t, direction |-> d]

\* update without `self.pos_calc = 0` on an event
update_NoReset(e, dt, clk) ==
    LET tr == ShiftIn(e.transition, Current(dt, clk))
        raw == e.pos_calc + Contribution(tr)
        sum == WrapI8(raw)
    IN  [pos_calc |-> sum, sensitivity |-> e.sensitivity, transition |-> tr,
         direction |-> IF Fires(sum, e.sensitivity)
                       THEN EventDirection(sum, e.sensitivity) ELSE "None",
         sum |-> sum, overflow |-> OverflowsI8(raw)]

\* update without the final `self.direction = Direction::None`
update_KeepDirection(e, dt, clk) ==
    LET tr == ShiftIn(e.transition, Current(dt, clk))
        raw == e.pos_calc + Contribution(tr)
        sum == WrapI8(raw)
    IN  IF Fires(sum, e.sensitivity)
        THEN [pos_calc |-> 0, sensitivity |-> e.sensitivity, transition |-> tr,
              direction |-> EventDirection(sum, e.sensitivity),
              sum |-> sum, overflow |-> OverflowsI8(raw)]
        ELSE [pos_calc |-> sum, sensitivity |-> e.sensitivity, transition |-> tr,
              direction |-> e.direction,
              sum |-> sum, overflow |-> OverflowsI8(raw)]

update(e, dt, clk) ==
    LET tr == ShiftIn(e.transition, Current(dt, clk))
        raw == e.pos_calc + Contribution(tr)
        sum == WrapI8(raw)
    IN  IF Fires(sum, e.sensitivity)
        THEN [pos_calc |-> 0, sensitivity |-> e.sensitivity, transition |-> tr,
              direction |-> EventDirection(sum, e.sensitivity),
              sum |-> sum, overflow |-> OverflowsI8(raw)]
        ELSE [pos_calc |-> sum, sensitivity |-> e.sensitivity, transition |-> tr,
              direction |-> "None",
              sum |-> sum, overflow |-> OverflowsI8(raw)]

\* RotaryEncoder::new
NewEncoder == EncState(0, "Default", 0, "None")

Self == EncState(pos_calc, sensitivity, transition, direction)

\* what a call whose i8 addition overflowed can do: abort (overflow checks
\* on, the default of a debug build) or go on with the wrapped value
Outcomes(r) == IF r.overflow THEN {"panic", "wrap"} ELSE {"ok"}

\* RotaryEncoder::update on the model's decoder, with pin reads dt and clk
EncoderUpdate(dt, clk) ==
    /\ ~panicked
    /\ LET r == update(Self, dt, clk)
       IN  \E o \in Outcomes(r) :
             IF o = "panic"
             THEN /\ panicked' = TRUE
                  /\ transition' = r.transition
                  /\ UNCHANGED <<pos_calc, sensitivity, direction>>
             ELSE /\ panicked' = FALSE
                  /\ transition' = r.transition
                  /\ pos_calc' = r.pos_calc
                  /\ direction' = r.direction
                  /\ UNCHANGED sensitivity

\* RotaryEncoder::set_sensitivity
EncoderSetSensitivity(s) ==
    /\ ~panicked
    /\ sensitivity' = s
    /\ UNCHANGED <<pos_calc, transition, direction, panicked>>

----------------------------------------------------------------------------
(* RotaryEncoderWithVelocity. *)

\* the u64 subtraction current_time - self.previous_time leaves the u64 range
UnderflowsU64(t, prev) == t < prev

\* the window test with <= in place of <
WithinWindow_Inclusive(t, prev, win) == IF UnderflowsU64(t, prev) THEN FALSE ELSE t - prev <= win

\* current_time - self.previous_time < self.velocity_action_ms.  A wrapped
\* difference, 2^64 - (prev - t), is above every window the model sets.
WithinWindow(t, prev, win) == IF UnderflowsU64(t, prev) THEN FALSE ELSE t - prev < win

\* the increase without its clamp to 1.0
Accelerate_NoCap(v, inc) == v + inc

\* self.velocity += self.velocity_inc_factor; if self.velocity > 1.0 { 1.0 }
Accelerate(v, inc) == IF v + inc > VelOne THEN VelOne ELSE v + inc

\* the velocity an update with a direction event leaves
EventVelocity(v, inc, t, prev, win) ==
    IF WithinWindow(t, prev, win) /\ v < VelOne THEN Accelerate(v, inc) ELSE v

\* self.velocity -= self.velocity_dec_factor; if self.velocity < 0.0 { 0.0 }
Decayed(v, dec) == IF v - dec < 0 THEN 0 ELSE v - dec

\* what the subtraction of an update with a direction event can do
TimeOutcomes(d, t, prev) ==
    IF d # "None" /\ UnderflowsU64(t, prev) THEN {"panic", "wrap"} ELSE {"ok"}

\* the timestamp stored on every call
StoredTime_Always(d, t, prev) == t

\* the timestamp stored one tick ahead of the call
StoredTime_Ahead(d, t, prev) == IF d # "None" THEN prev ELSE t + 1

\* return; on an event, self.previous_time = current_time otherwise: the
\* timestamp an update with resulting direction d leaves
StoredTime(d, t, prev) == IF d # "None" THEN prev ELSE t

\* RotaryEncoderWithVelocity::update(current_time), with pin reads dt and clk
TrackerUpdate(dt, clk, t) ==
    /\ ~panicked
    /\ LET r == update(Self, dt, clk)
       IN  \E o \in Outcomes(r) :
             IF o = "panic"
             THEN /\ panicked' = TRUE
                  /\ transition' = r.transition
                  /\ UNCHANGED <<pos_calc, sensitivity, direction>>
                  /\ UNCHANGED <<velocity, previous_time>>
             ELSE /\ transition' = r.transition
                  /\ pos_calc' = r.pos_calc
                  /\ direction' = r.direction
                  /\ UNCHANGED sensitivity
                  /\ \E u \in TimeOutcomes(r.direction, t, previous_time) :
                        IF u = "panic"
                        THEN /\ panicked' = TRUE
                             /\ UNCHANGED <<velocity, previous_time>>
                        ELSE /\ panicked' = FALSE
                             /\ velocity' =
                                   IF r.direction # "None"
                                   THEN EventVelocity(velocity, velocity_inc_factor, t,
                                                      previous_time, velocity_action_ms)
                                   ELSE velocity
                             /\ previous_time' =
                                   StoredTime(r.direction, t, previous_time)
    /\ UNCHANGED <<velocity_inc_factor, velocity_dec_factor, velocity_action_ms>>

\* a decay that also clears the reported direction
TrackerDecay_ClearsDirection ==
    /\ ~panicked
    /\ velocity' = Decayed(velocity, velocity_dec_factor)
    /\ direction' = "None"
    /\ UNCHANGED <<pos_calc, sensitivity, transition, panicked, velocity_inc_factor,
                   velocity_dec_factor, velocity_action_ms, previous_time>>

\* RotaryEncoderWithVelocity::decay_velocity
TrackerDecay ==
    /\ ~panicked
    /\ velocity' = Decayed(velocity, velocity_dec_factor)
    /\ UNCHANGED <<encVars, panicked, velocity_inc_factor, velocity_dec_factor,
                   velocity_action_ms, previous_time>>

\* RotaryEncoderWithVelocity::set_sensitivity: self.inner.sensitivity = sensitivity
TrackerSetSensitivity(s) ==
    /\ ~panicked
    /\ sensitivity' = s
    /\ UNCHANGED <<pos_calc, transition, direction, panicked, velVars>>

\* RotaryEncoderWithVelocity::set_velocity_inc_factor
TrackerSetIncFactor(f) ==
    /\ ~panicked
    /\ velocity_inc_factor' = f
    /\ UNCHANGED <<encVars, panicked, velocity, velocity_dec_factor,
                   velocity_action_ms, previous_time>>

\* RotaryEncoderWithVelocity::set_velocity_dec_factor
TrackerSetDecFactor(f) ==
    /\ ~panicked
    /\ velocity_dec_factor' = f
    /\ UNCHANGED <<encVars, panicked, velocity, velocity_inc_factor,
                   velocity_action_ms, previous_time>>

\* RotaryEncoderWithVelocity::set_velocity_action_ms
TrackerSetActionMs(ms) ==
    /\ ~panicked
    /\ velocity_action_ms' = ms
    /\ UNCHANGED <<encVars, panicked, velocity, velocity_inc_factor,
                   velocity_dec_factor, previous_time>>

----------------------------------------------------------------------------
(* Observers: they record what was called and are read by the properties   *)
(* only.                                                                   *)

\* the 2-bit sample of a call: bit 1 is pin A (DT), bit 0 is pin B (CLK)
PinSample(dt, clk) == (IF dt = "high" THEN 2 ELSE 0) + (IF clk = "high" THEN 1 ELSE 0)

\* the sample of the previous update, as the history holds it
PrevSample == transition % 4

\* both bits differ between samples a and b
InvalidJump(a, b) == (a % 2 # b % 2) /\ (a \div 2 # b \div 2)

Abs(x) == IF x < 0 THEN -x ELSE x

CallRec(op, arg) == [op |-> op, arg |-> arg]
Closed == <<CallRec("closed", 0)>>
\* The log is kept while the decoder is configured first and then fed: it
\* closes at its cap, and at a set_sensitivity call that follows an update.
Logged(op, arg) ==
    IF \/ log = Closed
       \/ Len(log) >= MaxLog
       \/ (op = "set_sensitivity" /\ \E i \in 1..Len(log) : log[i].op = "update")
    THEN Closed
    ELSE Append(log, CallRec(op, arg))

\* the sum of the table contributions since the last reported event
NetSumAfter == net_sum + Contribution(transition')

ObserveUpdate(dt, clk) ==
    /\ net_sum' = IF direction' # "None" THEN 0 ELSE NetSumAfter
    /\ log' = Logged("update", PinSample(dt, clk))

----------------------------------------------------------------------------
(* State after construction: RotaryEncoder::new, RotaryEncoderWithVelocity *)
(* ::new.                                                                  *)

Init ==
    /\ pos_calc = NewEncoder.pos_calc
    /\ sensitivity = NewEncoder.sensitivity
    /\ transition = NewEncoder.transition
    /\ direction = NewEncoder.direction
    /\ velocity = 0
    /\ velocity_inc_factor = DEFAULT_VELOCITY_INC_FACTOR
    /\ velocity_dec_factor = DEFAULT_VELOCITY_DEC_FACTOR
    /\ velocity_action_ms = DEFAULT_VELOCITY_ACTION_MS
    /\ previous_time = 0
    /\ panicked = FALSE
    /\ net_sum = 0
    /\ log = <<>>
    /\ quiet_time = 0
    /\ event_time = -1
    /\ twin = NewEncoder
    /\ last_read = <<"low", "low">>

----------------------------------------------------------------------------
(* SpecEnc: a RotaryEncoder under any interleaving of update and           *)
(* set_sensitivity.                                                        *)

EncUpdate ==
    \E dt \in Reads, clk \in Reads :
        /\ EncoderUpdate(dt, clk)
        /\ UNCHANGED <<velVars, net_sum, log, quiet_time, event_time, twin, last_read>>

EncSetSensitivity ==
    \E s \in Sensitivities :
        /\ EncoderSetSensitivity(s)
        /\ UNCHANGED <<velVars, net_sum, log, quiet_time, event_time, twin, last_read>>

NextEnc == EncUpdate \/ EncSetSensitivity

SpecEnc == Init /\ [][NextEnc]_vars

----------------------------------------------------------------------------
(* SpecHeld: a RotaryEncoder whose sensitivity is changed only while the   *)
(* accumulator is 0 (between detents); the observers are kept.             *)

HeldUpdate ==
    \E dt \in Reads, clk \in Reads :
        /\ EncoderUpdate(dt, clk)
        /\ ObserveUpdate(dt, clk)
        /\ UNCHANGED <<velVars, quiet_time, event_time, twin, last_read>>

HeldSetSensitivity ==
    \E s \in Sensitivities :
        /\ pos_calc = 0
        /\ EncoderSetSensitivity(s)
        /\ log' = Logged("set_sensitivity", SensValue(s))
        /\ UNCHANGED <<velVars, net_sum, quiet_time, event_time, twin, last_read>>

NextHeld == HeldUpdate \/ HeldSetSensitivity

SpecHeld == Init /\ [][NextHeld]_vars

----------------------------------------------------------------------------
(* SpecVel: a RotaryEncoderWithVelocity under any interleaving of update,  *)
(* decay_velocity and the two factor setters.                              *)

\* pin reads and timestamps fed to the tracker
PinLevels == {"high", "low"}
Times == 0..MaxTime
\* factors a caller sets: a negative one and a positive one
Factors == {-DEFAULT_VELOCITY_INC_FACTOR, DEFAULT_VELOCITY_INC_FACTOR}
VelocityExplored == velocity >= -VelCap /\ velocity <= VelOne + VelCap

VelUpdate ==
    \E dt \in PinLevels, clk \in PinLevels :
        /\ VelocityExplored
        \* every call at the same instant: each event falls within the window
        /\ TrackerUpdate(dt, clk, previous_time)
        /\ UNCHANGED <<net_sum, log, quiet_time, event_time, twin, last_read>>

VelDecay ==
    /\ VelocityExplored
    /\ TrackerDecay
    /\ UNCHANGED <<net_sum, log, quiet_time, event_time, twin, last_read>>

VelSetIncFactor ==
    \E f \in Factors :
        /\ TrackerSetIncFactor(f)
        /\ UNCHANGED <<net_sum, log, quiet_time, event_time, twin, last_read>>

VelSetDecFactor ==
    \E f \in Factors :
        /\ TrackerSetDecFactor(f)
        /\ UNCHANGED <<net_sum, log, quiet_time, event_time, twin, last_read>>

NextVel == VelUpdate \/ VelDecay \/ VelSetIncFactor \/ VelSetDecFactor

SpecVel == Init /\ [][NextVel]_vars

----------------------------------------------------------------------------
(* SpecTime: a RotaryEncoderWithVelocity whose update is called with       *)
(* non-decreasing timestamps, under any interleaving with                  *)
(* set_velocity_action_ms and set_velocity_inc_factor.                     *)

\* the latest timestamp passed to update
Now == IF event_time > quiet_time THEN event_time ELSE quiet_time
\* windows a caller sets: the shortest one and the default
Windows == {1, DEFAULT_VELOCITY_ACTION_MS}
\* increase factors a caller sets: a negative one and one that overshoots 1.0
IncFactors == {-DEFAULT_VELOCITY_INC_FACTOR, 3 * DEFAULT_VELOCITY_INC_FACTOR}

ObserveTime(t) ==
    /\ quiet_time' = IF direction' = "None" /\ ~panicked' THEN t ELSE quiet_time
    /\ event_time' = IF direction' # "None" /\ ~panicked' THEN t ELSE event_time

TimeUpdate ==
    \E dt \in PinLevels, clk \in PinLevels, t \in Times :
        /\ t >= Now
        /\ VelocityExplored
        /\ TrackerUpdate(dt, clk, t)
        /\ ObserveTime(t)
        /\ UNCHANGED <<net_sum, log, twin, last_read>>

TimeSetActionMs ==
    \E ms \in Windows :
        /\ TrackerSetActionMs(ms)
        /\ UNCHANGED <<net_sum, log, quiet_time, event_time, twin, last_read>>

TimeSetIncFactor ==
    \E f \in IncFactors :
        /\ TrackerSetIncFactor(f)
        /\ UNCHANGED <<net_sum, log, quiet_time, event_time, twin, last_read>>

NextTime == TimeUpdate \/ TimeSetActionMs \/ TimeSetIncFactor

SpecTime == Init /\ [][NextTime]_vars

----------------------------------------------------------------------------
(* Properties of RotaryEncoder. *)

\* C1: every update call changes the accumulator's pre-reset value by -1, 0
\* or +1; it leaves a non-None direction only if the pre-reset accumulator's
\* magnitude equals the sensitivity magnitude; and the accumulator is 0 after
\* every call that reports a non-None direction.
C1_StepAndReset ==
    [][\A dt \in Reads, clk \in Reads :
         EncoderUpdate(dt, clk) =>
            LET r == update(Self, dt, clk)
            IN  /\ r.sum - pos_calc \in {-1, 0, 1}
                /\ direction' # "None" => Abs(r.sum) = SensValue(sensitivity')
                /\ direction' # "None" => pos_calc' = 0]_vars

C1_Witness ==
    /\ direction = "Clockwise" /\ sensitivity = "Low" /\ pos_calc = 0
    /\ log # <<>> /\ log # Closed /\ log[Len(log)].op = "update"

\* C2: after any call of any interleaving of update and set_sensitivity the
\* accumulator's magnitude is strictly below the configured sensitivity.
C2_BelowThreshold == ~panicked => Abs(pos_calc) < SensValue(sensitivity)

\* C3: an update reports a non-None direction exactly when the net sum of
\* table contributions since the previous event reaches +2 or -2 (Default),
\* +4 or -4 (Low); Clockwise for the positive sum, Anticlockwise for the
\* negative one.
C3_EventAtNetSum ==
    [][\A dt \in Reads, clk \in Reads :
         EncoderUpdate(dt, clk) =>
            /\ direction' # "None" <=> Abs(NetSumAfter) = SensValue(sensitivity)
            /\ direction' = "Clockwise" => NetSumAfter = SensValue(sensitivity)
            /\ direction' = "Anticlockwise" => NetSumAfter = -SensValue(sensitivity)]_vars

C3_Witness ==
    /\ direction = "Anticlockwise" /\ sensitivity = "Low" /\ net_sum = 0
    /\ log = Closed

\* The clean quadrature sequence 00, 01, 11, 10 and its mirror, fed to a fresh
\* decoder: n update calls, after set_sensitivity(Low) when s is Low.
CleanScript == <<0, 1, 3, 2>>
MirrorScript == <<0, 2, 3, 1>>
Fed(script, s, n) ==
    (IF s = "Low" THEN <<CallRec("set_sensitivity", SensValue("Low"))>> ELSE <<>>)
    \o [i \in 1..n |-> CallRec("update", script[((i - 1) % 4) + 1])]
\* the first sample, 00, repeats the initial history: the threshold is
\* reached on call SensValue(s) + 1
FedLen(s) == SensValue(s) + 1
DetentIs(script, d) ==
    \A s \in Sensitivities : \A n \in 0..FedLen(s) :
        log = Fed(script, s, n) =>
            /\ sensitivity = s
            /\ direction = (IF n = FedLen(s) THEN d ELSE "None")
            /\ n = FedLen(s) => pos_calc = 0

\* C4 as stated: the sequence 00, 01, 11, 10 yields exactly one event, which
\* is Clockwise, and the mirrored sequence exactly one Anticlockwise event.
C4_CleanIsClockwise ==
    DetentIs(CleanScript, "Clockwise") /\ DetentIs(MirrorScript, "Anticlockwise")

\* C4 amended: the sequence 00, 01, 11, 10 yields exactly one event, on the
\* call that reaches the threshold, which is Anticlockwise, and the
\* accumulator is 0 afterwards; the mirrored sequence yields Clockwise.
C4_CleanIsAnticlockwise ==
    DetentIs(CleanScript, "Anticlockwise") /\ DetentIs(MirrorScript, "Clockwise")

C4_Witness ==
    /\ log = Fed(CleanScript, "Low", FedLen("Low"))
    /\ direction # "None"

\* an update call that completes and whose sample is an invalid jump
InvalidJumpUpdate(dt, clk) ==
    /\ EncoderUpdate(dt, clk)
    /\ ~panicked'
    /\ InvalidJump(PrevSample, PinSample(dt, clk))

\* C5 as stated: an invalid jump adds 0 to the accumulator and leaves
\* direction as it was before the call; only the history changes.
C5_InvalidJumpKeepsDirection ==
    [][\A dt \in Reads, clk \in Reads :
         InvalidJumpUpdate(dt, clk) =>
            /\ Contribution(transition') = 0
            /\ direction' = direction
            /\ pos_calc' = pos_calc
            /\ sensitivity' = sensitivity]_vars

\* C5 amended: an invalid jump adds 0 to the accumulator; direction is
\* recomputed, not kept: while the accumulator's magnitude differs from the
\* sensitivity magnitude the call leaves direction None and the accumulator
\* and sensitivity as they were.
C5_InvalidJumpClearsDirection ==
    [][\A dt \in Reads, clk \in Reads :
         InvalidJumpUpdate(dt, clk) =>
            /\ Contribution(transition') = 0
            /\ sensitivity' = sensitivity
            /\ ~Fires(pos_calc, sensitivity) =>
                  (direction' = "None" /\ pos_calc' = pos_calc)]_vars

C5_Witness ==
    /\ Index(transition) \in {3, 6, 9, 12}
    /\ direction = "None" /\ pos_calc = 3 /\ sensitivity = "Low"

\* C7: no update call panics: the i8 accumulator addition stays within
\* [-128, 127] under any update and set_sensitivity calls.
C7_NoOverflow == ~panicked

----------------------------------------------------------------------------
(* Properties of RotaryEncoderWithVelocity. *)

Min(a, b) == IF a < b THEN a ELSE b

\* C6: velocity() is within [0.0, 1.0] after every call, for any factors.
C6_VelocityInRange == velocity >= 0 /\ velocity <= VelOne

\* an update call with a direction event, completed at timestamp t
EventUpdate(dt, clk, t) ==
    /\ t >= Now
    /\ TrackerUpdate(dt, clk, t)
    /\ ~panicked'
    /\ direction' # "None"

\* C8 as stated: at a direction event at t whose previous event was at t0,
\* t - t0 < action_window increases velocity by inc_factor (capped at 1.0)
\* and t - t0 >= action_window leaves velocity unchanged.
C8_WindowSincePreviousEvent ==
    [][\A dt \in PinLevels, clk \in PinLevels, t \in Times :
         (EventUpdate(dt, clk, t) /\ event_time >= 0) =>
            IF t - event_time < velocity_action_ms
            THEN velocity' = Min(velocity + velocity_inc_factor, VelOne)
            ELSE velocity' = velocity]_vars

\* C8 amended: at a direction event at t whose previous event was at t0,
\* t - t0 < action_window and velocity < 1.0 set velocity to
\* min(velocity + inc_factor, 1.0); velocity is left unchanged when
\* t - tq >= action_window, tq being the timestamp of the latest update that
\* reported None (t0 <= tq), not when only t - t0 >= action_window.
C8_WindowSinceQuiet ==
    [][\A dt \in PinLevels, clk \in PinLevels, t \in Times :
         (EventUpdate(dt, clk, t) /\ event_time >= 0) =>
            /\ event_time <= quiet_time
            /\ (t - event_time < velocity_action_ms /\ velocity < VelOne)
                  => velocity' = Min(velocity + velocity_inc_factor, VelOne)
            /\ t - quiet_time >= velocity_action_ms => velocity' = velocity]_vars

C8_Witness ==
    /\ direction # "None" /\ event_time > 0 /\ quiet_time = event_time
    /\ velocity_action_ms = 1 /\ velocity = 2 * DEFAULT_VELOCITY_INC_FACTOR

\* C9: a decay_velocity call never increases velocity and keeps a velocity
\* of 0.0 at 0.0.
C9_DecayNeverIncreases ==
    [][TrackerDecay => (velocity' <= velocity /\ (velocity = 0 => velocity' = 0))]_vars

\* C10: update(t) changes velocity only when the call reports a non-None
\* direction, t minus the timestamp of the latest update that reported None
\* (0 if none) is strictly below action_window, and velocity < 1.0; the new
\* velocity is then min(velocity + inc_factor, 1.0).
C10_VelocityChange ==
    [][\A dt \in PinLevels, clk \in PinLevels, t \in Times :
         (t >= Now /\ TrackerUpdate(dt, clk, t) /\ ~panicked') =>
            velocity' =
                IF /\ direction' # "None"
                   /\ t - quiet_time < velocity_action_ms
                   /\ velocity < VelOne
                THEN Min(velocity + velocity_inc_factor, VelOne)
                ELSE velocity]_vars

C10_Witness ==
    /\ direction # "None" /\ event_time - quiet_time = 1
    /\ velocity_action_ms = 1 /\ velocity = 0

----------------------------------------------------------------------------
(* SpecRead: a RotaryEncoder whose sensitivity is changed only while the   *)
(* accumulator is 0; the pin reads of the latest update are kept.          *)

ReadUpdate ==
    \E dt \in Reads, clk \in Reads :
        /\ EncoderUpdate(dt, clk)
        /\ last_read' = <<dt, clk>>
        /\ UNCHANGED <<velVars, net_sum, log, quiet_time, event_time, twin>>

ReadSetSensitivity ==
    \E s \in Sensitivities :
        /\ pos_calc = 0
        /\ EncoderSetSensitivity(s)
        /\ UNCHANGED <<velVars, net_sum, log, quiet_time, event_time, twin, last_read>>

NextRead == ReadUpdate \/ ReadSetSensitivity

SpecRead == Init /\ [][NextRead]_vars

\* a failed read replaced by a read of level low
AsLow(r) == IF r = "err" THEN "low" ELSE r

\* C12: an update in which the read of pin A and/or pin B fails leaves exactly
\* the state (history, accumulator, direction) that the same update leaves
\* when that pin reads low, and no error is produced or stored.
C12_FailedReadIsLow ==
    [][\A dt \in Reads, clk \in Reads :
         EncoderUpdate(dt, clk) =>
            (EncoderUpdate(AsLow(dt), AsLow(clk)) /\ ~panicked')]_vars

C12_Witness ==
    /\ last_read = <<"err", "err">>
    /\ direction = "Anticlockwise" /\ Index(transition) = 8

\* C15: the table index of every update is 4 * prev + cur, cur being the
\* sample of this call and prev the sample of the call before it (00 on the
\* first call), whatever the older samples and the earlier outcomes were.
C15_IndexIsPrevCur ==
    [][\A dt \in Reads, clk \in Reads :
         EncoderUpdate(dt, clk) =>
            Index(transition') =
                4 * PinSample(last_read[1], last_read[2]) + PinSample(dt, clk)]_vars

C15_Witness ==
    /\ transition \div 16 # 0
    /\ last_read = <<"high", "high">> /\ direction = "Clockwise"

\* samples a and b differ in exactly one bit
OneBitApart(a, b) == (a % 2 # b % 2) # (a \div 2 # b \div 2)

\* C16: with a the sample the decoder holds (each of the four is reached)
\* and b any sample, the table's contribution for a -> b is non-zero exactly
\* when a and b differ in exactly one bit, and the contribution for b -> a
\* is its negation.
C16_TableAntisymmetric ==
    LET a == PrevSample
    IN  \A b \in 0..3 :
            /\ Contribution(4 * a + b) # 0 <=> OneBitApart(a, b)
            /\ Contribution(4 * b + a) = -Contribution(4 * a + b)

\* a valid step (00 -> 01) undone by its reverse: net contribution 0
C16_Witness ==
    /\ transition % 64 = 4 /\ last_read = <<"low", "low">>
    /\ pos_calc = 0 /\ direction = "None" /\ sensitivity = "Default"

----------------------------------------------------------------------------
(* SpecTracker: a RotaryEncoderWithVelocity called with timestamps in any  *)
(* order, decayed and reconfigured between updates, and beside it a plain  *)
(* RotaryEncoder (twin) given the same samples and the same sensitivity.   *)

\* RotaryEncoder::update on an encoder record, under the build's overflow setting
EncoderStep(e, dt, clk, aborted) ==
    LET r == update(e, dt, clk)
    IN  IF r.overflow /\ aborted
        THEN EncState(e.pos_calc, e.sensitivity, r.transition, e.direction)
        ELSE EncState(r.pos_calc, r.sensitivity, r.transition, r.direction)

\* decays are explored from the ceiling the events lead to
DecayExplored == velocity = VelOne

\* the factor a caller sets for both the increase and the decrease
TrackerFactors == {3 * DEFAULT_VELOCITY_INC_FACTOR}

TrkUpdate ==
    \E dt \in PinLevels, clk \in PinLevels, t \in Times :
        /\ TrackerUpdate(dt, clk, t)
        /\ quiet_time' = IF direction' = "None" /\ ~panicked' THEN t ELSE quiet_time
        /\ twin' = EncoderStep(twin, dt, clk, panicked')
        /\ UNCHANGED <<net_sum, log, event_time, last_read>>

TrkDecay ==
    /\ DecayExplored
    /\ TrackerDecay
    /\ UNCHANGED <<net_sum, log, quiet_time, event_time, twin, last_read>>

TrkSetSensitivity ==
    \E s \in Sensitivities :
        /\ pos_calc = 0
        /\ TrackerSetSensitivity(s)
        /\ twin' = EncState(twin.pos_calc, s, twin.transition, twin.direction)
        /\ UNCHANGED <<net_sum, log, quiet_time, event_time, last_read>>

TrkSetIncFactor ==
    \E f \in TrackerFactors :
        /\ TrackerSetIncFactor(f)
        /\ UNCHANGED <<net_sum, log, quiet_time, event_time, twin, last_read>>

TrkSetDecFactor ==
    \E f \in TrackerFactors :
        /\ TrackerSetDecFactor(f)
        /\ UNCHANGED <<net_sum, log, quiet_time, event_time, twin, last_read>>

TrkSetActionMs ==
    \E ms \in Windows :
        /\ TrackerSetActionMs(ms)
        /\ UNCHANGED <<net_sum, log, quiet_time, event_time, twin, last_read>>

NextTracker ==
    \/ TrkUpdate \/ TrkDecay \/ TrkSetSensitivity
    \/ TrkSetIncFactor \/ TrkSetDecFactor \/ TrkSetActionMs

SpecTracker == Init /\ [][NextTracker]_vars

\* C11: the stored timestamp is the timestamp of the latest update that
\* returned with direction None (0 before any): an update with resulting
\* direction None stores its timestamp, an update with resulting direction
\* Clockwise or Anticlockwise leaves it, and decay_velocity and the setters
\* leave it.
C11_TimestampOfLatestNone == previous_time = quiet_time

\* an event arrived at a later time than the stored timestamp, then a decay
C11_Witness ==
    /\ direction # "None" /\ previous_time = 1 /\ quiet_time = 1
    /\ velocity = VelOne - DEFAULT_VELOCITY_DEC_FACTOR

\* C14: after every call the tracker's inner direction, accumulator, history
\* and sensitivity equal those of a plain RotaryEncoder that was given the
\* same samples and the same set_sensitivity calls, whatever the timestamps,
\* decays and velocity settings were.
C14_TrackerDecodesAsEncoder == Self = twin

C14_Witness ==
    /\ twin.direction = "Clockwise" /\ direction = "Clockwise"
    /\ velocity > 0 /\ velocity_action_ms = 1 /\ previous_time = MaxTime

\* C19: when the timestamps of successive updates never decrease, the stored
\* timestamp is at most current_time at every update, and no update ends in
\* the underflow of current_time - previous_time.
C19_NoUnderflow ==
    [][\A dt \in PinLevels, clk \in PinLevels, t \in Times :
         (t >= Now /\ TrackerUpdate(dt, clk, t)) =>
            (~UnderflowsU64(t, previous_time) /\ ~panicked')]_vars

\* a direction event two ticks after the stored timestamp was taken
C19_Witness ==
    /\ direction # "None" /\ ~panicked
    /\ event_time = previous_time + 2

----------------------------------------------------------------------------
(* SpecPrev: a RotaryEncoder under any samples and any set_sensitivity     *)
(* calls; twin holds the encoder as the latest update found it.            *)

PrevUpdate ==
    \E dt \in PinLevels, clk \in PinLevels :
        /\ EncoderUpdate(dt, clk)
        /\ twin' = Self
        /\ UNCHANGED <<velVars, net_sum, log, quiet_time, event_time, last_read>>

PrevSetSensitivity ==
    \E s \in Sensitivities :
        /\ EncoderSetSensitivity(s)
        /\ UNCHANGED <<velVars, net_sum, log, quiet_time, event_time, twin, last_read>>

NextPrev == PrevUpdate \/ PrevSetSensitivity

SpecPrev == Init /\ [][NextPrev]_vars

\* C18: when the update before the latest one reported Clockwise or
\* Anticlockwise, the latest update reported None, whatever its sample and
\* whatever set_sensitivity calls came between and after the two.
C18_NoConsecutiveEvents == twin.direction # "None" => direction = "None"

\* an event, a change of sensitivity, then a valid step that reports None
C18_Witness ==
    /\ twin.direction = "Clockwise" /\ twin.sensitivity = "Default"
    /\ sensitivity = "Low" /\ direction = "None" /\ pos_calc = 1

----------------------------------------------------------------------------
(* SpecMirror: two RotaryEncoders of one sensitivity stepped together, the *)
(* second (twin) reading the two pins the other way round.                 *)

MirrorUpdate ==
    \E dt \in Reads, clk \in Reads :
        /\ EncoderUpdate(dt, clk)
        /\ twin' = EncoderStep(twin, clk, dt, panicked')
        /\ last_read' = <<dt, clk>>
        /\ UNCHANGED <<velVars, net_sum, log, quiet_time, event_time>>

MirrorSetSensitivity ==
    \E s \in Sensitivities :
        /\ pos_calc = 0 /\ twin.pos_calc = 0
        /\ EncoderSetSensitivity(s)
        /\ twin' = EncState(twin.pos_calc, s, twin.transition, twin.direction)
        /\ UNCHANGED <<velVars, net_sum, log, quiet_time, event_time, last_read>>

NextMirror == MirrorUpdate \/ MirrorSetSensitivity

SpecMirror == Init /\ [][NextMirror]_vars

\* the direction of the opposite rotation
Opposite(d) ==
    CASE d = "Clockwise"     -> "Anticlockwise"
      [] d = "Anticlockwise" -> "Clockwise"
      [] OTHER               -> "None"

\* C17: of two decoders of the same sensitivity, one fed each sample with its
\* two pin bits swapped, one reports Clockwise exactly when the other reports
\* Anticlockwise and None exactly when the other reports None, and their
\* accumulators are negations of each other.
C17_MirrorIsOpposite ==
    /\ twin.direction = Opposite(direction)
    /\ twin.pos_calc = -pos_calc

\* both fire at the Low threshold on a sample whose bits differ
C17_Witness ==
    /\ direction = "Clockwise" /\ twin.direction = "Anticlockwise"
    /\ sensitivity = "Low" /\ twin.sensitivity = "Low"
    /\ twin.transition # transition

----------------------------------------------------------------------------
(* SpecRebuild: a RotaryEncoder that is released in any state and built    *)
(* again from the returned pins. From then on twin, a decoder constructed  *)
(* for the first time, is given the same samples; a set_sensitivity call   *)
(* ends the comparison until the next release.                             *)

\* the two pins, which hold nothing of a decoder
Pins == <<"pin_dt", "pin_clk">>

\* a reconstruction that keeps the released decoder's sensitivity
Rebuilt_KeepSensitivity(e) == EncState(0, e.sensitivity, 0, "None")

\* RotaryEncoder::release: (self.pin_dt, self.pin_clk)
release(e) == Pins

\* RotaryEncoder::new(pin_dt, pin_clk)
new(pin_dt, pin_clk) == EncState(0, "Default", 0, "None")

\* new(pin_dt, pin_clk) on the pins release() returned
Rebuilt(e) == LET pins == release(e) IN new(pins[1], pins[2])

Compared == log # <<>>

Rebuild ==
    /\ ~panicked
    /\ LET e == Rebuilt(Self)
       IN  /\ pos_calc' = e.pos_calc
           /\ sensitivity' = e.sensitivity
           /\ transition' = e.transition
           /\ direction' = e.direction
    /\ twin' = NewEncoder
    /\ log' = <<CallRec("release", SensValue(sensitivity))>>
    /\ UNCHANGED <<panicked, velVars, net_sum, quiet_time, event_time, last_read>>

RebuildUpdate ==
    \E dt \in PinLevels, clk \in PinLevels :
        /\ EncoderUpdate(dt, clk)
        /\ twin' = IF Compared THEN EncoderStep(twin, dt, clk, panicked') ELSE twin
        /\ UNCHANGED <<velVars, net_sum, log, quiet_time, event_time, last_read>>

RebuildSetSensitivity ==
    \E s \in Sensitivities :
        /\ EncoderSetSensitivity(s)
        /\ twin' = NewEncoder
        /\ log' = <<>>
        /\ UNCHANGED <<velVars, net_sum, quiet_time, event_time, last_read>>

NextRebuild == Rebuild \/ RebuildUpdate \/ RebuildSetSensitivity

SpecRebuild == Init /\ [][NextRebuild]_vars

\* C13: a decoder built from the pins a released decoder returned is in the
\* state of a first-time-constructed decoder (accumulator 0, history 0,
\* direction None, sensitivity Default), and after every update on the same
\* sample the two report the same direction and hold the same accumulator,
\* history and sensitivity, whatever state the released decoder was in.
C13_RebuiltIsNew == Compared => Self = twin

\* a decoder released at sensitivity Low, rebuilt, fires at the Default threshold
C13_Witness ==
    /\ log = <<CallRec("release", SensValue("Low"))>>
    /\ direction = "Clockwise" /\ twin.direction = "Clockwise"
    /\ sensitivity = "Default"

====
